---- MODULE Spec2Model ----
(***************************************************************************)
(* Model of the career-platform front end: the tier gate (ShowForTier /    *)
(* hasRequiredTier), the query-string construction of                      *)
(* JobService.searchJobs, and the service clients (CvService, JobService,  *)
(* SocialService, blogService) as asynchronous calls over apiClient.       *)
(*                                                                         *)
(* Strings that the code concatenates, encodes or that a server parses     *)
(* (ids, paths, query strings, filter values) are sequences of             *)
(* one-character strings. JavaScript values the code inspects are tagged   *)
(* records [t |-> <type>, ...].                                            *)
(***************************************************************************)
EXTENDS Integers, Sequences, FiniteSets, TLC

VARIABLES
  user,       \* useAuth().user: absent, or a user with a tier value
  props,      \* the props ShowForTier was last rendered with
  rendered,   \* the node ShowForTier returned at its last render
  filters,    \* the JobSearchFilters object handed to searchJobs
  searchReq,  \* the request searchJobs issued for `filters`
  calls,      \* the service-method invocations, in invocation order
  requests,   \* the HTTP requests handed to apiClient, in issue order
  store,      \* the records the backend holds, by resource path
  view,       \* the copy a caller keeps of each record it updated
  after,      \* per call: the calls that had settled when it was invoked
  arrived     \* the calls in the order their responses arrived

vars == <<user, props, rendered, filters, searchReq, calls, requests,
          store, view, after, arrived>>
gateVars == <<user, props, rendered>>
searchVars == <<filters, searchReq>>
svcVars == <<calls, requests>>
backendVars == <<store, view, after, arrived>>

(***************************************************************************)
(* JavaScript values                                                       *)
(***************************************************************************)
Undefined == [t |-> "undefined"]
Null == [t |-> "null"]
Num(n) == [t |-> "number", v |-> n]
NaN == [t |-> "NaN"]
Func(name) == [t |-> "function", v |-> name]
Obj(name) == [t |-> "object", v |-> name]

\* ToNumber of the values a tierLevels lookup can produce: a number is
\* itself; undefined, and an object or function inherited from
\* Object.prototype (whose primitive is a non-numeric string), are NaN.
ToNumber(x) == IF x.t = "number" THEN x ELSE NaN

\* The >= operator on two values: false when either operand converts to NaN.
JsGreaterOrEqual(a, b) ==
  LET na == ToNumber(a)
      nb == ToNumber(b)
  IN  IF na = NaN \/ nb = NaN THEN FALSE ELSE na.v >= nb.v

(***************************************************************************)
(* Tier gate                                                               *)
(***************************************************************************)
RequiredTiers == {"free", "pro", "premium", "admin"}

\* Property names every object literal inherits from Object.prototype.
PrototypeFunctions == {"constructor", "toString", "valueOf", "hasOwnProperty"}

\* Tier values a user object can carry at run time: the four the gate knows,
\* the backend's "enterprise", a wrongly cased and an empty value, names
\* that Object.prototype defines, and no tier at all.
NoTier == "(undefined)"
UserTiers == RequiredTiers \cup {"enterprise", "FREE", "", "constructor",
                                 "toString", "__proto__", NoTier}

AbsentUser == [present |-> FALSE, tier |-> NoTier]
Users == {AbsentUser} \cup {[present |-> TRUE, tier |-> t] : t \in UserTiers}

\* A property key: undefined is converted to the string "undefined".
PropertyKey(k) == IF k = NoTier THEN "undefined" ELSE k

\* tierLevels[key], the lookup in the object literal of hasRequiredTier.
tierLevels(key) ==
  CASE PropertyKey(key) = "free" -> Num(1)
    [] PropertyKey(key) = "pro" -> Num(2)
    [] PropertyKey(key) = "premium" -> Num(3)
    [] PropertyKey(key) = "admin" -> Num(4)
    [] PropertyKey(key) \in PrototypeFunctions -> Func(PropertyKey(key))
    [] PropertyKey(key) = "__proto__" -> Obj("Object.prototype")
    [] OTHER -> Undefined

\* Variants of the comparison: strict, and written as a negated "<".
JsGreater(a, b) ==
  LET na == ToNumber(a)
      nb == ToNumber(b)
  IN  IF na = NaN \/ nb = NaN THEN FALSE ELSE na.v > nb.v

hasRequiredTierStrict(userTier, requiredTier) ==
  JsGreater(tierLevels(userTier), tierLevels(requiredTier))

hasRequiredTierNotLess(userTier, requiredTier) ==
  ~JsGreater(tierLevels(requiredTier), tierLevels(userTier))

hasRequiredTier(userTier, requiredTier) ==
  JsGreaterOrEqual(tierLevels(userTier), tierLevels(requiredTier))

\* Nodes: the protected children, a supplied fallback, or null.
ChildrenNodes == {"ProtectedA", "ProtectedB"}
FallbackProps == {"(omitted)", "null", "UpgradePrompt"}
GateProps == [children : ChildrenNodes, requiredTier : RequiredTiers,
              fallback : FallbackProps]

\* The destructuring default: fallback = null when the prop is not given.
FallbackOf(p) == IF p.fallback = "(omitted)" THEN "null" ELSE p.fallback

\* Variant with the wrong connective: only a present user is ever refused.
ShowForTierAbsentPasses(u, p) ==
  IF u.present /\ ~hasRequiredTier(u.tier, p.requiredTier)
    THEN FallbackOf(p)
    ELSE p.children

ShowForTier(u, p) ==
  IF ~u.present \/ ~hasRequiredTier(u.tier, p.requiredTier)
    THEN FallbackOf(p)
    ELSE p.children

Unmounted == "(unmounted)"

GateInit ==
  /\ user = AbsentUser
  /\ props \in GateProps
  /\ rendered = Unmounted

GateIdle ==
  /\ user = AbsentUser
  /\ props = [children |-> "ProtectedA", requiredTier |-> "free",
              fallback |-> "(omitted)"]
  /\ rendered = Unmounted

\* First render of the component with the current auth context.
Mount ==
  /\ rendered = Unmounted
  /\ rendered' = ShowForTier(user, props)
  /\ UNCHANGED <<user, props>>

\* The auth context changes (login, logout, tier change); a mounted
\* component is rendered again with the new user.
AuthChange ==
  \E u \in Users :
    /\ u # user
    /\ user' = u
    /\ rendered' = IF rendered = Unmounted THEN Unmounted
                   ELSE ShowForTier(u, props)
    /\ UNCHANGED props

\* The parent renders the gate again with other props.
Rerender ==
  \E p \in GateProps :
    /\ rendered # Unmounted
    /\ p # props
    /\ props' = p
    /\ rendered' = ShowForTier(user, p)
    /\ UNCHANGED user

GateNext ==
  \/ Mount /\ UNCHANGED <<searchVars, svcVars, backendVars>>
  \/ AuthChange /\ UNCHANGED <<searchVars, svcVars, backendVars>>
  \/ Rerender /\ UNCHANGED <<searchVars, svcVars, backendVars>>

(***************************************************************************)
(* Strings and the application/x-www-form-urlencoded serializer            *)
(***************************************************************************)
Letters == {"a", "b", "c", "d", "e", "f", "g", "h", "i", "j", "k", "l", "m",
            "n", "o", "p", "q", "r", "s", "t", "u", "v", "w", "x", "y", "z",
            "A", "B", "C", "D", "E", "F", "G", "H", "I", "J", "K", "L", "M",
            "N", "O", "P", "Q", "R", "S", "T", "U", "V", "W", "X", "Y", "Z"}
DigitChars == <<"0", "1", "2", "3", "4", "5", "6", "7", "8", "9">>
Digits == {DigitChars[i] : i \in 1..10}

\* The characters URLSearchParams leaves as they are.
UrlencodedSafe == Letters \cup Digits \cup {"*", "-", ".", "_"}

\* The percent-encoding of the other ASCII characters the model uses.
PercentCode(c) ==
  CASE c = "&" -> <<"%", "2", "6">>
    [] c = "=" -> <<"%", "3", "D">>
    [] c = "+" -> <<"%", "2", "B">>
    [] c = "%" -> <<"%", "2", "5">>
    [] c = "/" -> <<"%", "2", "F">>
    [] c = "?" -> <<"%", "3", "F">>
    [] c = "#" -> <<"%", "2", "3">>

UrlencodeChar(c) ==
  IF c \in UrlencodedSafe THEN <<c>>
  ELSE IF c = " " THEN <<"+">>
  ELSE PercentCode(c)

RECURSIVE Urlencode(_)
Urlencode(s) ==
  IF s = <<>> THEN <<>> ELSE UrlencodeChar(Head(s)) \o Urlencode(Tail(s))

\* URLSearchParams.prototype.toString: name=value tuples joined by "&".
RECURSIVE SerializeParams(_)
SerializeParams(ps) ==
  IF ps = <<>> THEN <<>>
  ELSE Urlencode(Head(ps).name) \o <<"=">> \o Urlencode(Head(ps).value)
       \o (IF Len(ps) > 1 THEN <<"&">> ELSE <<>>)
       \o SerializeParams(Tail(ps))

\* Number.prototype.toString for integers.
RECURSIVE DigitsOf(_)
DigitsOf(n) ==
  IF n < 10 THEN <<DigitChars[n + 1]>>
  ELSE DigitsOf(n \div 10) \o <<DigitChars[(n % 10) + 1]>>

NumberToString(x) ==
  IF x = NaN THEN <<"N", "a", "N">>
  ELSE IF x.v < 0 THEN <<"-">> \o DigitsOf(-x.v)
  ELSE DigitsOf(x.v)

StrVal(s) == [t |-> "string", v |-> s]
BoolVal(b) == [t |-> "boolean", v |-> b]

\* ToBoolean, as the if statements of searchJobs apply it.
Truthy(x) ==
  CASE x.t = "undefined" -> FALSE
    [] x.t = "null" -> FALSE
    [] x.t = "NaN" -> FALSE
    [] x.t = "string" -> x.v # <<>>
    [] x.t = "boolean" -> x.v
    [] x.t = "number" -> x.v # 0
    [] OTHER -> TRUE

(***************************************************************************)
(* JobService.searchJobs                                                   *)
(***************************************************************************)
kQuery == <<"q", "u", "e", "r", "y">>
kLocation == <<"l", "o", "c", "a", "t", "i", "o", "n">>
kType == <<"t", "y", "p", "e">>
kRemote == <<"r", "e", "m", "o", "t", "e">>
kSalaryMin == <<"s", "a", "l", "a", "r", "y", "M", "i", "n">>
kSalaryMax == <<"s", "a", "l", "a", "r", "y", "M", "a", "x">>
sTrue == <<"t", "r", "u", "e">>
sFalse == <<"f", "a", "l", "s", "e">>
sEngineer == <<"e", "n", "g", "i", "n", "e", "e", "r">>
pJobsSearch == <<"/", "j", "o", "b", "s", "/", "s", "e", "a", "r", "c", "h">>

Param(n, v) == [name |-> n, value |-> v]

\* A variant whose string fields are guarded by `!== undefined`.
SearchParamsDefinedOnly(f) ==
  (IF f.query # Undefined THEN <<Param(kQuery, f.query.v)>> ELSE <<>>)
  \o (IF f.location # Undefined
        THEN <<Param(kLocation, f.location.v)>> ELSE <<>>)
  \o (IF f.type # Undefined THEN <<Param(kType, f.type.v)>> ELSE <<>>)
  \o (IF Truthy(f.remote) THEN <<Param(kRemote, sTrue)>> ELSE <<>>)
  \o (IF Truthy(f.salaryMin)
        THEN <<Param(kSalaryMin, NumberToString(f.salaryMin))>> ELSE <<>>)
  \o (IF Truthy(f.salaryMax)
        THEN <<Param(kSalaryMax, NumberToString(f.salaryMax))>> ELSE <<>>)

\* The URLSearchParams list after the six conditional appends.
SearchParams(f) ==
  (IF Truthy(f.query) THEN <<Param(kQuery, f.query.v)>> ELSE <<>>)
  \o (IF Truthy(f.location) THEN <<Param(kLocation, f.location.v)>> ELSE <<>>)
  \o (IF Truthy(f.type) THEN <<Param(kType, f.type.v)>> ELSE <<>>)
  \o (IF Truthy(f.remote) THEN <<Param(kRemote, sTrue)>> ELSE <<>>)
  \o (IF Truthy(f.salaryMin)
        THEN <<Param(kSalaryMin, NumberToString(f.salaryMin))>> ELSE <<>>)
  \o (IF Truthy(f.salaryMax)
        THEN <<Param(kSalaryMax, NumberToString(f.salaryMax))>> ELSE <<>>)

Request(method, url, body) == [method |-> method, url |-> url, body |-> body]

\* The request searchJobs hands to apiClient.get.
SearchRequest(f) ==
  Request("GET", pJobsSearch \o <<"?">> \o SerializeParams(SearchParams(f)),
          Undefined)

\* The filter objects explored: every field absent, falsy or truthy.
QueryValues == {Undefined, StrVal(<<>>), StrVal(sEngineer),
                StrVal(<<"a", " ", "b">>),
                StrVal(<<"x", "&", "r", "e", "m", "o", "t", "e", "=", "1">>)}
LocationValues == {Undefined, StrVal(<<>>), StrVal(<<"N", "Y", "C">>)}
TypeValues == {Undefined, StrVal(<<"f", "u", "l", "l", "-", "t", "i", "m", "e">>)}
RemoteValues == {Undefined, BoolVal(FALSE), BoolVal(TRUE)}
SalaryValues == {Undefined, Num(0), Num(-5), Num(50000), NaN}
JobSearchFilters ==
  [query : QueryValues, location : LocationValues, type : TypeValues,
   remote : RemoteValues, salaryMin : SalaryValues, salaryMax : SalaryValues]

NoRequest == [method |-> "(none)"]

FilterFields == <<"query", "location", "type", "remote", "salaryMin",
                  "salaryMax">>
FieldValues(fld) ==
  CASE fld = "query" -> QueryValues
    [] fld = "location" -> LocationValues
    [] fld = "type" -> TypeValues
    [] fld = "remote" -> RemoteValues
    [] fld = "salaryMin" -> SalaryValues
    [] fld = "salaryMax" -> SalaryValues

EmptyFilters == [fld \in {FilterFields[i] : i \in 1..6} |-> Undefined]

SearchIdle ==
  /\ filters = EmptyFilters
  /\ searchReq = NoRequest

\* The caller sets one field of its filter object (possibly to the value it
\* has) and calls searchJobs, which builds and issues the request.
SearchJobs ==
  \E i \in 1..6 :
    \E v \in FieldValues(FilterFields[i]) :
      /\ filters' = [filters EXCEPT ![FilterFields[i]] = v]
      /\ searchReq' = SearchRequest(filters')

SearchNext == SearchJobs /\ UNCHANGED <<gateVars, svcVars, backendVars>>

(***************************************************************************)
(* Service clients: the request each method hands to apiClient             *)
(***************************************************************************)
pCvs == <<"/", "c", "v", "s">>
pAiEnhance == <<"/", "a", "i", "/", "e", "n", "h", "a", "n", "c", "e">>
pJobs == <<"/", "j", "o", "b", "s">>
pJobsSaved == <<"/", "j", "o", "b", "s", "/", "s", "a", "v", "e", "d">>
pJobsSave == <<"/", "j", "o", "b", "s", "/", "s", "a", "v", "e">>
pJobsApply == <<"/", "j", "o", "b", "s", "/", "a", "p", "p", "l", "y">>
pJobsAlerts ==
  <<"/", "j", "o", "b", "s", "/", "a", "l", "e", "r", "t", "s">>
pSocialPosts ==
  <<"/", "s", "o", "c", "i", "a", "l", "/", "p", "o", "s", "t", "s">>
pSocialAccounts ==
  <<"/", "s", "o", "c", "i", "a", "l", "/", "a", "c", "c", "o", "u", "n",
    "t", "s">>
pSocialAccountsConnect ==
  <<"/", "s", "o", "c", "i", "a", "l", "/", "a", "c", "c", "o", "u", "n",
    "t", "s", "/", "c", "o", "n", "n", "e", "c", "t">>
pAnalytics == <<"/", "a", "n", "a", "l", "y", "t", "i", "c", "s">>
pBlogPosts == <<"/", "b", "l", "o", "g", "/", "p", "o", "s", "t", "s">>
pBlogCategories ==
  <<"/", "b", "l", "o", "g", "/", "c", "a", "t", "e", "g", "o", "r", "i",
    "e", "s">>

\* The template literal `${root}/${id}`.
Under(root, id) == root \o <<"/">> \o id

\* CvService
CvService_getCvs == Request("GET", pCvs, Undefined)
CvService_getCv(id) == Request("GET", Under(pCvs, id), Undefined)
CvService_createCv(cvData) == Request("POST", pCvs, cvData)
CvService_updateCvAsPost(id, cvData) == Request("POST", pCvs, cvData)
CvService_updateCv(id, cvData) == Request("PUT", Under(pCvs, id), cvData)
CvService_deleteCv(id) == Request("DELETE", Under(pCvs, id), Undefined)
CvService_enhanceWithAi(text) ==
  Request("POST", pAiEnhance, [text |-> text])

\* JobService
JobService_searchJobs(f) == SearchRequest(f)
JobService_getJob(id) == Request("GET", Under(pJobs, id), Undefined)
JobService_getSavedJobs == Request("GET", pJobsSaved, Undefined)
JobService_saveJob(jobId) == Request("POST", pJobsSave, [jobId |-> jobId])
JobService_unsaveJob(jobId) ==
  Request("DELETE", Under(pJobsSaved, jobId), Undefined)
JobService_applyToJob(jobId, cvId, coverLetter) ==
  Request("POST", pJobsApply,
          [jobId |-> jobId, cvId |-> cvId, coverLetter |-> coverLetter])
JobService_getJobAlerts == Request("GET", pJobsAlerts, Undefined)
JobService_createJobAlert(alert) == Request("POST", pJobsAlerts, alert)
JobService_updateJobAlert(id, alert) ==
  Request("PUT", Under(pJobsAlerts, id), alert)
JobService_deleteJobAlert(id) ==
  Request("DELETE", Under(pJobsAlerts, id), Undefined)

\* SocialService
SocialService_getPosts == Request("GET", pSocialPosts, Undefined)
SocialService_createPost(data) == Request("POST", pSocialPosts, data)
\* A variant that attaches a version token for a conflict check.
SocialService_updatePostVersioned(id, data) ==
  Request("PUT", Under(pSocialPosts, id), [version |-> "1"] @@ data)
SocialService_updatePost(id, data) ==
  Request("PUT", Under(pSocialPosts, id), data)
SocialService_deletePost(id) ==
  Request("DELETE", Under(pSocialPosts, id), Undefined)
SocialService_getConnectedAccounts ==
  Request("GET", pSocialAccounts, Undefined)
SocialService_connectAccount(platform) ==
  Request("POST", pSocialAccountsConnect, [platform |-> platform])
SocialService_disconnectAccount(accountId) ==
  Request("DELETE", Under(pSocialAccounts, accountId), Undefined)
SocialService_getPostAnalytics(postId) ==
  Request("GET", Under(pSocialPosts, postId) \o pAnalytics, Undefined)

\* blogService
blogService_getAllPosts == Request("GET", pBlogPosts, Undefined)
\* A variant that ignores its argument and reads one fixed post.
blogService_getPostByIdFixed(id) ==
  Request("GET", Under(pBlogPosts, <<"7">>), Undefined)
blogService_getPostById(id) ==
  Request("GET", Under(pBlogPosts, id), Undefined)
blogService_createPost(data) == Request("POST", pBlogPosts, data)
blogService_updatePost(data) ==
  Request("PUT", Under(pBlogPosts, data.id), data)
\* A variant that reads the post instead of removing it.
blogService_deletePostAsGet(id) ==
  Request("GET", Under(pBlogPosts, id), Undefined)
blogService_deletePost(id) ==
  Request("DELETE", Under(pBlogPosts, id), Undefined)
blogService_getCategories == Request("GET", pBlogCategories, Undefined)

(***************************************************************************)
(* Service clients: what each method does with the settled request         *)
(***************************************************************************)
JsString(s) == [t |-> "string", v |-> s]
JsObject(fields) == [t |-> "object", f |-> fields]
JsError(name) == [t |-> "error", name |-> name]
TypeError == JsError("TypeError")

Resolved(v) == [state |-> "resolved", value |-> v]
Rejected(e) == [state |-> "rejected", value |-> e]

\* obj[name] for a response body: a missing property reads as undefined.
Field(obj, name) == IF name \in DOMAIN obj.f THEN obj.f[name] ELSE Undefined

\* A variant that hands back the whole response object.
ReturnResponse(response) == Resolved(response)

\* `return response.data`
ReturnData(response) == Resolved(response.data)

\* a method body that ends after the await: the promise resolves undefined
ReturnNothing(response) == Resolved(Undefined)

CvService_enhanceWithAi_returnsBody(response) == Resolved(response.data)

\* `return response.data.enhancedText`: reading a property of null or
\* undefined throws a TypeError, which rejects the async function's promise.
CvService_enhanceWithAi_return(response) ==
  IF response.data \in {Null, Undefined}
    THEN Rejected(TypeError)
    ELSE Resolved(Field(response.data, "enhancedText"))

Ops == {"CvService.getCvs", "CvService.getCv", "CvService.createCv",
        "CvService.updateCv", "CvService.deleteCv",
        "CvService.enhanceWithAi",
        "JobService.searchJobs", "JobService.getJob",
        "JobService.getSavedJobs", "JobService.saveJob",
        "JobService.unsaveJob", "JobService.applyToJob",
        "JobService.getJobAlerts", "JobService.createJobAlert",
        "JobService.updateJobAlert", "JobService.deleteJobAlert",
        "SocialService.getPosts", "SocialService.createPost",
        "SocialService.updatePost", "SocialService.deletePost",
        "SocialService.getConnectedAccounts",
        "SocialService.connectAccount", "SocialService.disconnectAccount",
        "SocialService.getPostAnalytics",
        "blogService.getAllPosts", "blogService.getPostById",
        "blogService.createPost", "blogService.updatePost",
        "blogService.deletePost", "blogService.getCategories"}

\* Methods declared Promise<void>: their body is a bare await.
VoidOps == {"CvService.deleteCv", "JobService.saveJob",
            "JobService.unsaveJob", "JobService.applyToJob",
            "JobService.deleteJobAlert", "SocialService.deletePost",
            "SocialService.disconnectAccount", "blogService.deletePost"}

\* The request method `op` issues when called with the argument tuple a.
RequestOf(op, a) ==
  CASE op = "CvService.getCvs" -> CvService_getCvs
    [] op = "CvService.getCv" -> CvService_getCv(a[1])
    [] op = "CvService.createCv" -> CvService_createCv(a[1])
    [] op = "CvService.updateCv" -> CvService_updateCv(a[1], a[2])
    [] op = "CvService.deleteCv" -> CvService_deleteCv(a[1])
    [] op = "CvService.enhanceWithAi" -> CvService_enhanceWithAi(a[1])
    [] op = "JobService.searchJobs" -> JobService_searchJobs(a[1])
    [] op = "JobService.getJob" -> JobService_getJob(a[1])
    [] op = "JobService.getSavedJobs" -> JobService_getSavedJobs
    [] op = "JobService.saveJob" -> JobService_saveJob(a[1])
    [] op = "JobService.unsaveJob" -> JobService_unsaveJob(a[1])
    [] op = "JobService.applyToJob" -> JobService_applyToJob(a[1], a[2], a[3])
    [] op = "JobService.getJobAlerts" -> JobService_getJobAlerts
    [] op = "JobService.createJobAlert" -> JobService_createJobAlert(a[1])
    [] op = "JobService.updateJobAlert" ->
         JobService_updateJobAlert(a[1], a[2])
    [] op = "JobService.deleteJobAlert" -> JobService_deleteJobAlert(a[1])
    [] op = "SocialService.getPosts" -> SocialService_getPosts
    [] op = "SocialService.createPost" -> SocialService_createPost(a[1])
    [] op = "SocialService.updatePost" ->
         SocialService_updatePost(a[1], a[2])
    [] op = "SocialService.deletePost" -> SocialService_deletePost(a[1])
    [] op = "SocialService.getConnectedAccounts" ->
         SocialService_getConnectedAccounts
    [] op = "SocialService.connectAccount" ->
         SocialService_connectAccount(a[1])
    [] op = "SocialService.disconnectAccount" ->
         SocialService_disconnectAccount(a[1])
    [] op = "SocialService.getPostAnalytics" ->
         SocialService_getPostAnalytics(a[1])
    [] op = "blogService.getAllPosts" -> blogService_getAllPosts
    [] op = "blogService.getPostById" -> blogService_getPostById(a[1])
    [] op = "blogService.createPost" -> blogService_createPost(a[1])
    [] op = "blogService.updatePost" -> blogService_updatePost(a[1])
    [] op = "blogService.deletePost" -> blogService_deletePost(a[1])
    [] op = "blogService.getCategories" -> blogService_getCategories

\* The statements of method `op` after its await, on a fulfilled request.
ReturnOf(op, response) ==
  CASE op \in VoidOps -> ReturnNothing(response)
    [] op = "CvService.enhanceWithAi" ->
         CvService_enhanceWithAi_return(response)
    [] OTHER -> ReturnData(response)

\* A variant that catches the rejection and answers with an empty result.
AwaitCatching(op, settled) ==
  IF settled.state = "rejected"
    THEN Resolved(Undefined)
    ELSE ReturnOf(op, settled.response)

\* `await apiClient.<verb>(...)` in a body with no try/catch: a rejected
\* request rejects the method's promise with the same error; a fulfilled
\* one continues with the statements after the await.
Await(op, settled) ==
  IF settled.state = "rejected"
    THEN Rejected(settled.error)
    ELSE ReturnOf(op, settled.response)

\* A variant that calls apiClient a second time for the same invocation.
IssuedTwice(op, a) == <<RequestOf(op, a), RequestOf(op, a)>>

\* The apiClient calls method `op` makes: the single one it awaits.
Issued(op, a) == <<RequestOf(op, a)>>

(***************************************************************************)
(* Service calls as asynchronous operations                                *)
(***************************************************************************)
MaxCalls == 2

\* Arguments the callers pass.
Ids == {<<"7">>, <<"4", "2">>}
CallerData == {[title |-> "Draft"], [title |-> "Final", status |-> "scheduled"]}
BlogUpdates == {[id |-> i, title |-> "Final"] : i \in Ids}
Texts == {"text", "Led a team of five"}
Platforms == {"linkedin", "twitter"}
CoverLetters == {Undefined, JsString("Dear team")}
SampleFilters ==
  {[EmptyFilters EXCEPT !.query = StrVal(sEngineer), !.remote = BoolVal(TRUE)],
   [EmptyFilters EXCEPT !.remote = BoolVal(FALSE), !.salaryMin = Num(0)]}

NoArgOps == {"CvService.getCvs", "JobService.getSavedJobs",
             "JobService.getJobAlerts", "SocialService.getPosts",
             "SocialService.getConnectedAccounts",
             "blogService.getAllPosts", "blogService.getCategories"}
IdOps == {"CvService.getCv", "CvService.deleteCv", "JobService.getJob",
          "JobService.saveJob", "JobService.unsaveJob",
          "JobService.deleteJobAlert", "SocialService.deletePost",
          "SocialService.disconnectAccount",
          "SocialService.getPostAnalytics", "blogService.getPostById",
          "blogService.deletePost"}
DataOps == {"CvService.createCv", "JobService.createJobAlert",
            "SocialService.createPost", "blogService.createPost"}
IdDataOps == {"CvService.updateCv", "JobService.updateJobAlert",
              "SocialService.updatePost"}

\* The argument tuples method `op` is called with.
ArgsOf(op) ==
  CASE op \in NoArgOps -> {<<>>}
    [] op \in IdOps -> {<<i>> : i \in Ids}
    [] op \in DataOps -> {<<d>> : d \in CallerData}
    [] op \in IdDataOps -> {<<i, d>> : i \in Ids, d \in CallerData}
    [] op = "blogService.updatePost" -> {<<d>> : d \in BlogUpdates}
    [] op = "CvService.enhanceWithAi" -> {<<t>> : t \in Texts}
    [] op = "SocialService.connectAccount" -> {<<p>> : p \in Platforms}
    [] op = "JobService.applyToJob" ->
         {<<j, <<"7">>, l>> : j \in Ids, l \in CoverLetters}
    [] op = "JobService.searchJobs" -> {<<f>> : f \in SampleFilters}

\* What the backend can answer through apiClient.
ResponseBodies ==
  {Null,
   JsObject([enhancedText |-> JsString("Improved text"),
             model |-> JsString("m1")]),
   JsObject([id |-> JsString("9"), title |-> JsString("Draft")])}
HttpErrors == {JsError("NetworkError"), JsError("Http404"), JsError("Http500")}

SvcIdle ==
  /\ calls = <<>>
  /\ requests = <<>>

RequestsOf(c) == {r \in 1..Len(requests) : requests[r].call = c}

\* The request call c awaits: the first one it issued.
Awaited(c) == CHOOSE r \in RequestsOf(c) : \A q \in RequestsOf(c) : r <= q

RECURSIVE InFlight(_, _)
InFlight(rs, c) ==
  IF rs = <<>> THEN <<>>
  ELSE <<[call |-> c, request |-> Head(rs), state |-> "inflight"]>>
       \o InFlight(Tail(rs), c)

\* A caller invokes a service method: the body runs to its await, handing
\* its request to apiClient, and the caller gets a pending promise.
InvokeWith(op, a) ==
  /\ calls' = Append(calls, [op |-> op, args |-> a, state |-> "awaiting"])
  /\ requests' = requests \o InFlight(Issued(op, a), Len(calls) + 1)

Invoke ==
  \E op \in Ops :
    \E a \in ArgsOf(op) :
      /\ Len(calls) < MaxCalls
      /\ InvokeWith(op, a)

\* apiClient fulfils a request with the backend's response.
HttpFulfil ==
  \E r \in 1..Len(requests) :
    \E d \in ResponseBodies :
      /\ requests[r].state = "inflight"
      /\ requests' = [requests EXCEPT ![r] =
                        [call |-> @.call, request |-> @.request,
                         state |-> "fulfilled",
                         response |-> [status |-> 200, data |-> d]]]
      /\ UNCHANGED calls

\* apiClient rejects a request: transport failure or an error status.
HttpReject ==
  \E r \in 1..Len(requests) :
    \E e \in HttpErrors :
      /\ requests[r].state = "inflight"
      /\ requests' = [requests EXCEPT ![r] =
                        [call |-> @.call, request |-> @.request,
                         state |-> "rejected", error |-> e]]
      /\ UNCHANGED calls

\* A variant in which the Promise<void> methods call apiClient without await.
AwaitsUnlessVoid(op) == op \notin VoidOps

\* Every method body awaits its apiClient call, the bare `await
\* apiClient.delete(...)` of the Promise<void> methods included.
Awaits(op) == TRUE

\* The method body resumes after its await and settles the caller's promise.
Resume ==
  \E c \in 1..Len(calls) :
    /\ calls[c].state = "awaiting"
    /\ Awaits(calls[c].op) => requests[Awaited(c)].state # "inflight"
    /\ calls' = [calls EXCEPT ![c] =
                   [op |-> @.op, args |-> @.args]
                     @@ Await(@.op, requests[Awaited(c)])]
    /\ UNCHANGED requests

\* The records the backend holds at the start, by resource path.
InitialStore ==
  (Under(pBlogPosts, <<"7">>) :> [id |-> <<"7">>, title |-> "Hello"])
    @@ (Under(pCvs, <<"7">>) :> [id |-> <<"7">>, title |-> "CV"])
    @@ (Under(pSocialPosts, <<"7">>) :> [id |-> <<"7">>, title |-> "Post"])

BackendIdle ==
  /\ store = InitialStore
  /\ view = <<>>
  /\ after = <<>>
  /\ arrived = <<>>

Init == GateIdle /\ SearchIdle /\ SvcIdle /\ BackendIdle

Next ==
  \/ Invoke /\ UNCHANGED <<gateVars, searchVars, backendVars>>
  \/ HttpFulfil /\ UNCHANGED <<gateVars, searchVars, backendVars>>
  \/ HttpReject /\ UNCHANGED <<gateVars, searchVars, backendVars>>
  \/ Resume /\ UNCHANGED <<gateVars, searchVars, backendVars>>

Spec == Init /\ [][Next]_vars

\* The continuation of an await is a microtask: once the awaited request has
\* settled, the event loop runs it.
SpecFair == Spec /\ WF_vars(Resume /\ UNCHANGED <<gateVars, searchVars, backendVars>>)

(***************************************************************************)
(* Routes: the methods that address one route or one record, called with   *)
(* any string as id                                                        *)
(***************************************************************************)
\* Strings a caller can pass as an id: `id: string` admits every one.
RouteIds ==
  Ids \cup {<<>>, <<"s", "a", "v", "e", "d">>,
            <<"a", "l", "e", "r", "t", "s">>,
            <<"s", "e", "a", "r", "c", "h">>,
            <<"7", "/", "x">>, <<"7", "?", "x">>}

RouteOps == {"JobService.getJob", "JobService.getSavedJobs",
             "JobService.getJobAlerts", "JobService.searchJobs",
             "SocialService.getPosts", "SocialService.updatePost",
             "SocialService.deletePost", "CvService.getCvs",
             "CvService.getCv"}

RouteArgsOf(op) ==
  CASE op \in IdOps -> {<<i>> : i \in RouteIds}
    [] op \in IdDataOps -> {<<i, [title |-> "Final"]>> : i \in RouteIds}
    [] OTHER -> ArgsOf(op)

\* A caller invokes one of the route methods with any id string.
InvokeRoute ==
  \E op \in RouteOps :
    \E a \in RouteArgsOf(op) :
      /\ Len(calls) < MaxCalls
      /\ InvokeWith(op, a)

RoutesNext == InvokeRoute /\ UNCHANGED <<gateVars, searchVars, backendVars>>

SpecRoutes == Init /\ [][RoutesNext]_vars

\* The tier gate alone, over every user and every props value.
InitGate == GateInit /\ SearchIdle /\ SvcIdle /\ BackendIdle
SpecGate == InitGate /\ [][GateNext]_vars

\* searchJobs alone, over every filter object of JobSearchFilters.
InitSearch == GateIdle /\ SearchIdle /\ SvcIdle /\ BackendIdle
SpecSearch == InitSearch /\ [][SearchNext]_vars

(***************************************************************************)
(* Properties of the tier gate (checked under SpecGate)                    *)
(***************************************************************************)
Mounted == rendered # Unmounted

\* The order the specification gives the four tiers.
TierOrder(t) ==
  CASE t = "free" -> 1 [] t = "pro" -> 2 [] t = "premium" -> 3
    [] t = "admin" -> 4

\* The fallback the gate must show: the supplied node, or null when none
\* was supplied.
ExpectedFallback ==
  IF props.fallback = "(omitted)" THEN "null" ELSE props.fallback

\* C1: for a present user whose tier is one of free, pro, premium, admin, the
\* gate renders the protected children if and only if the user's tier is at
\* least the required tier in the order free < pro < premium < admin, and
\* renders the fallback otherwise.
C1_TierOrderDecides ==
  (Mounted /\ user.present /\ user.tier \in RequiredTiers) =>
    IF TierOrder(user.tier) >= TierOrder(props.requiredTier)
      THEN rendered = props.children
      ELSE rendered = ExpectedFallback

C1_Witness ==
  /\ user.present
  /\ user.tier = "premium"
  /\ props.requiredTier = "pro"
  /\ rendered = props.children

\* C2: with no user present the gate never renders the protected children,
\* whatever tier is required: it renders the fallback, which is null when
\* no fallback was supplied.
C2_AbsentUserDenied ==
  (Mounted /\ ~user.present) =>
    /\ rendered \notin ChildrenNodes
    /\ rendered = ExpectedFallback

C2_Witness ==
  /\ ~user.present
  /\ props.requiredTier = "free"
  /\ props.fallback = "(omitted)"
  /\ rendered = "null"

\* C3: a present user whose tier is not one of free, pro, premium, admin
\* (a missing tier included) is refused for every required tier, the lowest
\* one included: the gate renders the fallback.
C3_UnknownTierDenied ==
  (Mounted /\ user.present /\ user.tier \notin RequiredTiers) =>
    /\ rendered \notin ChildrenNodes
    /\ rendered = ExpectedFallback

C3_Witness ==
  /\ user.present
  /\ user.tier \in {"constructor", NoTier}
  /\ props.requiredTier = "free"
  /\ Mounted
  /\ rendered = ExpectedFallback

(***************************************************************************)
(* Reading a request URL as the server does                                *)
(***************************************************************************)
HasChar(s, c) == \E i \in 1..Len(s) : s[i] = c
FirstIndex(s, c) == CHOOSE i \in 1..Len(s) : s[i] = c /\ \A j \in 1..(i - 1) : s[j] # c
Before(s, c) == IF HasChar(s, c) THEN SubSeq(s, 1, FirstIndex(s, c) - 1) ELSE s
After(s, c) ==
  IF HasChar(s, c) THEN SubSeq(s, FirstIndex(s, c) + 1, Len(s)) ELSE <<>>

RECURSIVE SplitOn(_, _)
SplitOn(s, c) ==
  IF HasChar(s, c) THEN <<Before(s, c)>> \o SplitOn(After(s, c), c) ELSE <<s>>

PercentEncoded == {"&", "=", "+", "%", "/", "?", "#"}
IsPercentCode(s) == \E c \in PercentEncoded : PercentCode(c) = s

RECURSIVE Urldecode(_)
Urldecode(s) ==
  IF s = <<>> THEN <<>>
  ELSE IF Head(s) = "+" THEN <<" ">> \o Urldecode(Tail(s))
  ELSE IF Len(s) >= 3 /\ IsPercentCode(SubSeq(s, 1, 3))
    THEN <<CHOOSE c \in PercentEncoded : PercentCode(c) = SubSeq(s, 1, 3)>>
         \o Urldecode(SubSeq(s, 4, Len(s)))
  ELSE <<Head(s)>> \o Urldecode(Tail(s))

RECURSIVE DecodePairs(_)
DecodePairs(pieces) ==
  IF pieces = <<>> THEN <<>>
  ELSE (IF Head(pieces) = <<>> THEN <<>>
        ELSE <<Param(Urldecode(Before(Head(pieces), "=")),
                     Urldecode(After(Head(pieces), "=")))>>)
       \o DecodePairs(Tail(pieces))

\* The path of a URL, and the parameters of its query string in order.
UrlPath(url) == Before(url, "?")
UrlParams(url) == DecodePairs(SplitOn(After(url, "?"), "&"))

ParamNames(ps) == [i \in 1..Len(ps) |-> ps[i].name]
ValuesOf(ps, name) == {ps[i].value : i \in {j \in 1..Len(ps) : ps[j].name = name}}

(***************************************************************************)
(* Properties of searchJobs (checked under SpecSearch)                     *)
(***************************************************************************)
Searched == searchReq # NoRequest

FieldKey(fld) ==
  CASE fld = "query" -> kQuery [] fld = "location" -> kLocation
    [] fld = "type" -> kType [] fld = "remote" -> kRemote
    [] fld = "salaryMin" -> kSalaryMin [] fld = "salaryMax" -> kSalaryMax

\* The text that carries a filter value in a query string.
ValueText(x) ==
  CASE x.t = "string" -> x.v
    [] x.t = "boolean" -> IF x.v THEN sTrue ELSE sFalse
    [] OTHER -> NumberToString(x)

\* A field the caller set: given, and not the empty string (which has nothing
\* to match on).
IsSet(x) == x # Undefined /\ x # StrVal(<<>>)

RECURSIVE KeysInOrder(_, _)
KeysInOrder(f, i) ==
  IF i > Len(FilterFields) THEN <<>>
  ELSE (IF IsSet(f[FilterFields[i]]) THEN <<FieldKey(FilterFields[i])>>
        ELSE <<>>) \o KeysInOrder(f, i + 1)

EngineerRemoteUrl ==
  pJobsSearch \o <<"?">> \o kQuery \o <<"=">> \o sEngineer \o <<"&">>
  \o kRemote \o <<"=">> \o sTrue

\* C4: searchJobs issues GET /jobs/search with a query string that holds
\* exactly the filter fields the caller set, each key once, in the order
\* query, location, type, remote, salaryMin, salaryMax; for
\* {query: "engineer", remote: true} the URL is
\* /jobs/search?query=engineer&remote=true.
C4_ExactlyTheSetFields ==
  Searched =>
    /\ searchReq.method = "GET"
    /\ UrlPath(searchReq.url) = pJobsSearch
    /\ ParamNames(UrlParams(searchReq.url)) = KeysInOrder(filters, 1)
    /\ (filters = [EmptyFilters EXCEPT !.query = StrVal(sEngineer),
                                       !.remote = BoolVal(TRUE)]
          => searchReq.url = EngineerRemoteUrl)

\* C5: a filter field that is absent or undefined never appears in the query
\* string searchJobs issues, and no parameter of it has an empty value.
C5_NoAbsentNoEmpty ==
  Searched =>
    LET ps == UrlParams(searchReq.url)
    IN  /\ \A i \in 1..Len(FilterFields) :
             filters[FilterFields[i]] = Undefined =>
               \A j \in 1..Len(ps) : ps[j].name # FieldKey(FilterFields[i])
        /\ \A j \in 1..Len(ps) : ps[j].value # <<>>

C5_Witness ==
  /\ Searched
  /\ filters.query = StrVal(<<"x", "&", "r", "e", "m", "o", "t", "e", "=", "1">>)
  /\ filters.location = StrVal(<<>>)
  /\ filters.remote = Undefined
  /\ filters.salaryMin = Undefined
  /\ filters.salaryMax # Undefined

\* C6: every filter field the caller gave a defined value appears in the
\* query string of the issued request with exactly that value, remote = false
\* and a salary bound of 0 included. (The empty string, which C5 keeps out of
\* the query string, is not counted as a value here.)
C6_DefinedFieldsForwarded ==
  Searched =>
    LET ps == UrlParams(searchReq.url)
    IN  \A i \in 1..Len(FilterFields) :
          IsSet(filters[FilterFields[i]]) =>
            ValuesOf(ps, FieldKey(FilterFields[i]))
              = {ValueText(filters[FilterFields[i]])}

(***************************************************************************)
(* Properties of the service calls (checked under Spec)                    *)
(***************************************************************************)
Settled(c) == calls[c].state # "awaiting"
RequestOfCall(c) == requests[CHOOSE r \in 1..Len(requests) : requests[r].call = c]

\* C7: when the HTTP call of a service method fails (transport failure, 4xx,
\* 5xx), the method's promise rejects with that same error: it never
\* resolves, and never carries another error or a fallback value.
C7_ErrorsPropagateUnchanged ==
  \A c \in 1..Len(calls) :
    \A r \in 1..Len(requests) :
      (requests[r].call = c /\ requests[r].state = "rejected" /\ Settled(c)) =>
        /\ calls[c].state = "rejected"
        /\ calls[c].value = requests[r].error

C7_Witness ==
  /\ Len(calls) = 2
  /\ calls[1].op = "blogService.getPostById"
  /\ calls[1].state = "rejected"
  /\ calls[1].value = JsError("Http404")
  /\ calls[2].op = "JobService.saveJob"
  /\ calls[2].state = "rejected"
  /\ calls[2].value = JsError("NetworkError")

\* C8: every invocation of a service method issues exactly one HTTP request,
\* whether the request is in flight, succeeded or failed, and every request
\* belongs to one invocation.
C8_OneRequestPerCall ==
  /\ \A c \in 1..Len(calls) :
       Cardinality({r \in 1..Len(requests) : requests[r].call = c}) = 1
  /\ \A r \in 1..Len(requests) : requests[r].call \in 1..Len(calls)

C8_Witness ==
  /\ Len(calls) = 2
  /\ calls[1].op = "CvService.getCvs"
  /\ calls[2].op = "CvService.getCvs"
  /\ calls[1].state = "rejected"
  /\ calls[2].state = "resolved"
  /\ Len(requests) = 2

\* The contract table: the resource root and the kind of each CRUD method.
CrudRoot(op) ==
  CASE op \in {"CvService.getCvs", "CvService.getCv", "CvService.createCv",
               "CvService.updateCv", "CvService.deleteCv"} -> pCvs
    [] op \in {"JobService.getJobAlerts", "JobService.createJobAlert",
               "JobService.updateJobAlert", "JobService.deleteJobAlert"} ->
         pJobsAlerts
    [] op \in {"SocialService.getPosts", "SocialService.createPost",
               "SocialService.updatePost", "SocialService.deletePost"} ->
         pSocialPosts
    [] op \in {"blogService.getAllPosts", "blogService.getPostById",
               "blogService.createPost", "blogService.updatePost",
               "blogService.deletePost"} -> pBlogPosts

ListOps == {"CvService.getCvs", "JobService.getJobAlerts",
            "SocialService.getPosts", "blogService.getAllPosts"}
GetOps == {"CvService.getCv", "blogService.getPostById"}
CreateOps == {"CvService.createCv", "JobService.createJobAlert",
              "SocialService.createPost", "blogService.createPost"}
UpdateOps == {"CvService.updateCv", "JobService.updateJobAlert",
              "SocialService.updatePost"}
DeleteOps == {"CvService.deleteCv", "JobService.deleteJobAlert",
              "SocialService.deletePost", "blogService.deletePost"}

Expected(method, url, body) == [method |-> method, url |-> url, body |-> body]

\* C9: each CRUD method issues the method and path of the contract table for
\* its resource root: list GET root, get GET root/{id}, create POST root with
\* the caller's data, update PUT root/{id} with the caller's data, delete
\* DELETE root/{id}; {id} is the id passed (for blogService.updatePost, the
\* id field of the data passed).
C9_CrudMapping ==
  \A c \in 1..Len(calls) :
    LET op == calls[c].op
        a == calls[c].args
        rq == RequestOfCall(c).request
        root == CrudRoot(op)
    IN  /\ op \in ListOps => rq = Expected("GET", root, Undefined)
        /\ op \in GetOps =>
             rq = Expected("GET", root \o <<"/">> \o a[1], Undefined)
        /\ op \in CreateOps => rq = Expected("POST", root, a[1])
        /\ op \in UpdateOps =>
             rq = Expected("PUT", root \o <<"/">> \o a[1], a[2])
        /\ op = "blogService.updatePost" =>
             rq = Expected("PUT", root \o <<"/">> \o a[1].id, a[1])
        /\ op \in DeleteOps =>
             rq = Expected("DELETE", root \o <<"/">> \o a[1], Undefined)

C9_Witness ==
  /\ Len(calls) = 2
  /\ calls[1].op = "CvService.updateCv"
  /\ calls[1].args = <<<<"4", "2">>, [title |-> "Draft"]>>
  /\ requests[1].request.method = "PUT"
  /\ requests[1].request.url = <<"/", "c", "v", "s", "/", "4", "2">>
  /\ calls[2].op = "blogService.updatePost"
  /\ requests[2].request.url =
       <<"/", "b", "l", "o", "g", "/", "p", "o", "s", "t", "s", "/", "7">>

\* C10: enhanceWithAi(text) issues POST /ai/enhance with body {text}, and
\* when it resolves its value is the enhancedText field of the response body,
\* not the body and not the response.
C10_EnhanceReturnsField ==
  \A c \in 1..Len(calls) :
    calls[c].op = "CvService.enhanceWithAi" =>
      LET rq == RequestOfCall(c)
      IN  /\ rq.request =
               Expected("POST", pAiEnhance, [text |-> calls[c].args[1]])
          /\ calls[c].state = "resolved" =>
               /\ rq.state = "fulfilled"
               /\ rq.response.data.t = "object"
               /\ calls[c].value =
                    (IF "enhancedText" \in DOMAIN rq.response.data.f
                       THEN rq.response.data.f.enhancedText
                       ELSE Undefined)
               /\ calls[c].value # rq.response.data

C10_Witness ==
  \E c \in 1..Len(calls) :
    /\ calls[c].op = "CvService.enhanceWithAi"
    /\ calls[c].args = <<"text">>
    /\ calls[c].state = "resolved"
    /\ calls[c].value = JsString("Improved text")
    /\ "model" \in DOMAIN RequestOfCall(c).response.data.f

\* C11: on success every method that returns data, enhanceWithAi aside,
\* resolves with the response's data exactly as received, and every method
\* declared Promise<void> resolves with no value, whatever the response held.
C11_DataUnmodified ==
  \A c \in 1..Len(calls) :
    (calls[c].state = "resolved" /\ calls[c].op # "CvService.enhanceWithAi") =>
      /\ RequestOfCall(c).state = "fulfilled"
      /\ IF calls[c].op \in {"CvService.deleteCv", "JobService.saveJob",
                             "JobService.unsaveJob", "JobService.applyToJob",
                             "JobService.deleteJobAlert",
                             "SocialService.deletePost",
                             "SocialService.disconnectAccount",
                             "blogService.deletePost"}
           THEN calls[c].value = Undefined
           ELSE calls[c].value = RequestOfCall(c).response.data

C11_Witness ==
  /\ Len(calls) = 2
  /\ calls[1].op = "SocialService.getPosts"
  /\ calls[1].state = "resolved"
  /\ calls[1].value = JsObject([id |-> JsString("9"), title |-> JsString("Draft")])
  /\ calls[2].op = "SocialService.disconnectAccount"
  /\ calls[2].state = "resolved"
  /\ requests[2].response.data # Null
  /\ calls[2].value = Undefined

(***************************************************************************)
(* The backend's tier values against the gate (checked under SpecGate)     *)
(***************************************************************************)
\* The values of the backend's UserTier enum, which User.tier holds.
BackendTiers == {"free", "premium", "enterprise"}

\* C17: every user whose tier is one the backend can assign (free, premium,
\* enterprise) is shown a region whose required tier is free.
C17_BackendTiersPassFree ==
  (Mounted /\ user.present /\ user.tier \in BackendTiers
     /\ props.requiredTier = "free") =>
    rendered = props.children

(***************************************************************************)
(* Properties of the routes (checked under SpecRoutes)                     *)
(***************************************************************************)
MethodAndPath(rq) == <<rq.method, UrlPath(rq.url)>>

\* The url names one record under root: root, "/", and one non-empty segment
\* without "/", and no query string.
OneRecordUnder(url, root) ==
  /\ ~HasChar(url, "?")
  /\ Len(url) > Len(root) + 1
  /\ SubSeq(url, 1, Len(root) + 1) = root \o <<"/">>
  /\ ~HasChar(SubSeq(url, Len(root) + 2, Len(url)), "/")

\* C16: distinct operations never issue the same request: for every id the
\* method and path of getJob(id) differ from those of getSavedJobs,
\* getJobAlerts and searchJobs, and SocialService.deletePost(id),
\* updatePost(id) and CvService.getCv(id) address one record root/{id}.
C16_RoutesDistinct ==
  \A c \in 1..Len(calls) :
    LET rq == RequestOfCall(c).request
    IN  /\ calls[c].op = "JobService.getJob" =>
             \A d \in 1..Len(calls) :
               calls[d].op \in {"JobService.getSavedJobs",
                                "JobService.getJobAlerts",
                                "JobService.searchJobs"} =>
                 MethodAndPath(rq) # MethodAndPath(RequestOfCall(d).request)
        /\ calls[c].op \in {"SocialService.deletePost",
                            "SocialService.updatePost"} =>
             OneRecordUnder(rq.url, pSocialPosts)
        /\ calls[c].op = "CvService.getCv" => OneRecordUnder(rq.url, pCvs)

(***************************************************************************)
(* Settling of the service calls (checked under SpecFair)                  *)
(***************************************************************************)
RequestSettled(c) ==
  c <= Len(calls) /\ RequestOfCall(c).state \in {"fulfilled", "rejected"}

\* C15: a service call settles only after its HTTP request has settled, the
\* Promise<void> methods included; once settled it keeps its outcome; and
\* when the HTTP client has settled the request, the call is eventually
\* resolved or rejected.
C15_SettlesAfterHttpOnce ==
  /\ [](\A c \in 1..Len(calls) : Settled(c) => RequestSettled(c))
  /\ [][\A c \in 1..Len(calls) : Settled(c) => calls'[c] = calls[c]]_vars
  /\ \A c \in 1..MaxCalls :
       RequestSettled(c) ~> (c <= Len(calls) /\ Settled(c))

C15_Witness ==
  /\ Len(calls) = 2
  /\ calls[1].op = "CvService.deleteCv"
  /\ calls[1].state = "resolved"
  /\ requests[1].state = "fulfilled"
  /\ calls[2].op = "JobService.saveJob"
  /\ calls[2].state = "rejected"
  /\ requests[2].state = "rejected"


(***************************************************************************)
(* The backend behind apiClient: a store of records addressed by path, and *)
(* a caller that keeps the result of each update                           *)
(***************************************************************************)
MaxBackendCalls == 3

Collections == {pBlogPosts, pCvs, pSocialPosts}

RecordUpdateOps == {"CvService.updateCv", "SocialService.updatePost",
              "blogService.updatePost"}

\* A request the backend has answered carries the ordinal of its service.
Served(r) == requests[r].state # "inflight" /\ requests[r].seq > 0
NumServed == Cardinality({r \in 1..Len(requests) : Served(r)})
NumCreated ==
  Cardinality({r \in 1..Len(requests) :
                 /\ Served(r)
                 /\ requests[r].state = "fulfilled"
                 /\ requests[r].request.method = "POST"})

\* The backend assigns each created record an id it has not used before.
FirstFreshId == 8
FreshId == DigitsOf(FirstFreshId + NumCreated)

Fulfilled(d) ==
  [state |-> "fulfilled", response |-> [status |-> 200, data |-> d]]
NotFound == [state |-> "rejected", error |-> JsError("Http404")]
Without(s, p) == [q \in DOMAIN s \ {p} |-> s[q]]

\* The backend's handling of one request: the store afterwards and the
\* answer. POST on a collection creates, GET reads, PUT merges the body into
\* the record, DELETE removes it; anything else is answered 404.
Handle(req) ==
  LET path == UrlPath(req.url) IN
    CASE req.method = "POST" /\ path \in Collections ->
           LET rec == [id |-> FreshId] @@ req.body IN
             [store |-> (Under(path, FreshId) :> rec) @@ store,
              answer |-> Fulfilled(JsObject(rec))]
      [] req.method = "GET" /\ path \in DOMAIN store ->
           [store |-> store, answer |-> Fulfilled(JsObject(store[path]))]
      [] req.method = "PUT" /\ path \in DOMAIN store ->
           LET rec == req.body @@ store[path] IN
             [store |-> [store EXCEPT ![path] = rec],
              answer |-> Fulfilled(JsObject(rec))]
      [] req.method = "DELETE" /\ path \in DOMAIN store ->
           [store |-> Without(store, path), answer |-> Fulfilled(Undefined)]
      [] OTHER -> [store |-> store, answer |-> NotFound]

\* The backend serves a request that reached it and answers.
Serve ==
  \E r \in 1..Len(requests) :
    /\ requests[r].state = "inflight"
    /\ LET h == Handle(requests[r].request) IN
         /\ store' = h.store
         /\ requests' = [requests EXCEPT ![r] =
                           [call |-> @.call, request |-> @.request,
                            seq |-> NumServed + 1] @@ h.answer]
    /\ UNCHANGED <<calls, view, after, arrived>>

\* The request never reaches the backend: apiClient rejects it.
TransportFail ==
  \E r \in 1..Len(requests) :
    /\ requests[r].state = "inflight"
    /\ requests' = [requests EXCEPT ![r] =
                      [call |-> @.call, request |-> @.request, seq |-> 0,
                       state |-> "rejected",
                       error |-> JsError("NetworkError")]]
    /\ UNCHANGED <<calls, store, view, after, arrived>>

SettledCalls == {c \in 1..Len(calls) : calls[c].state # "awaiting"}

\* The ids a caller has: the ones it knew, and the ones createPost returned.
KnownIds ==
  Ids \cup {calls[k].value.f.id :
              k \in {j \in 1..Len(calls) :
                       /\ calls[j].op = "blogService.createPost"
                       /\ calls[j].state = "resolved"}}

BackendOps == {"blogService.getPostById", "blogService.createPost",
               "blogService.deletePost"} \cup RecordUpdateOps

BackendArgsOf(op) ==
  CASE op \in {"blogService.getPostById", "blogService.deletePost"} ->
         {<<i>> : i \in KnownIds}
    [] op = "blogService.updatePost" ->
         {<<[id |-> i, title |-> "Final"]>> : i \in KnownIds}
    [] op = "blogService.createPost" -> {<<d>> : d \in CallerData}
    [] OTHER -> {<<<<"7">>, d>> : d \in CallerData}

\* A caller invokes a method while earlier calls may still be in flight.
BackendInvoke ==
  \E op \in BackendOps :
    \E a \in BackendArgsOf(op) :
      /\ Len(calls) < MaxBackendCalls
      /\ InvokeWith(op, a)
      /\ after' = Append(after, SettledCalls)
      /\ UNCHANGED <<store, view, arrived>>

\* The record a call addresses.
ResourceOf(c) == UrlPath(requests[Awaited(c)].request.url)

\* A response arrives: the method resumes after its await and settles, and a
\* caller that updated a record keeps the result as its copy of it.
Arrive ==
  /\ Resume
  /\ LET c == CHOOSE k \in 1..Len(calls) : calls'[k] # calls[k] IN
       /\ arrived' = Append(arrived, c)
       /\ view' = IF calls'[c].op \in RecordUpdateOps /\ calls'[c].state = "resolved"
                    THEN (ResourceOf(c) :> calls'[c].value) @@ view
                    ELSE view
  /\ UNCHANGED <<store, after>>

BackendNext ==
  \/ BackendInvoke /\ UNCHANGED <<gateVars, searchVars>>
  \/ Serve /\ UNCHANGED <<gateVars, searchVars>>
  \/ TransportFail /\ UNCHANGED <<gateVars, searchVars>>
  \/ Arrive /\ UNCHANGED <<gateVars, searchVars>>

SpecBackend == Init /\ [][BackendNext]_vars


(***************************************************************************)
(* Properties of the calls against the backend store (SpecBackend)         *)
(***************************************************************************)
\* Call c was invoked after a deletePost of the same id had resolved.
DeletedBefore(c) ==
  \E d \in after[c] :
    /\ calls[d].op = "blogService.deletePost"
    /\ calls[d].args = calls[c].args
    /\ calls[d].state = "resolved"

\* C12: a getPostById(id) invoked after a deletePost(id) has resolved issues
\* its own GET for /blog/posts/{id}, never resolves with a post, and, once
\* the backend has answered that GET, rejects with the backend's not-found
\* error.
C12_DeletedPostNotFound ==
  \A c \in 1..Len(calls) :
    (calls[c].op = "blogService.getPostById" /\ DeletedBefore(c)) =>
      /\ Cardinality(RequestsOf(c)) = 1
      /\ requests[Awaited(c)].request =
           Request("GET", Under(pBlogPosts, calls[c].args[1]), Undefined)
      /\ calls[c].state # "resolved"
      /\ (Settled(c) /\ Served(Awaited(c))) =>
           /\ calls[c].state = "rejected"
           /\ calls[c].value = JsError("Http404")

C12_Witness ==
  /\ Len(calls) >= 2
  /\ calls[1].op = "blogService.deletePost"
  /\ calls[1].args = <<<<"7">>>>
  /\ calls[2].op = "blogService.getPostById"
  /\ calls[2].args = <<<<"7">>>>
  /\ DeletedBefore(2)
  /\ Served(Awaited(2))
  /\ calls[2].state = "rejected"
  /\ calls[2].value = JsError("Http404")

\* A PUT or DELETE of the record request rc reads was served after request
\* rk and before rc.
MutatedBetween(rk, rc) ==
  \E r \in 1..Len(requests) :
    /\ Served(r)
    /\ requests[r].seq > requests[rk].seq
    /\ requests[r].seq < requests[rc].seq
    /\ requests[r].state = "fulfilled"
    /\ requests[r].request.method \in {"PUT", "DELETE"}
    /\ UrlPath(requests[r].request.url) = UrlPath(requests[rc].request.url)

\* Call c is a getPostById of the id that createPost call k resolved with,
\* invoked after k resolved.
ReadsBack(k, c) ==
  /\ calls[k].op = "blogService.createPost"
  /\ calls[k].state = "resolved"
  /\ k \in after[c]
  /\ calls[c].op = "blogService.getPostById"
  /\ calls[c].args = <<Field(calls[k].value, "id")>>

\* C13: when createPost(data) resolved with result and a following
\* getPostById(result.id) is answered by the backend with no update or
\* delete of that post served in between, the get resolves with an object
\* that equals result in every field of data.
C13_CreateThenGetRoundTrip ==
  \A k \in 1..Len(calls) :
    \A c \in 1..Len(calls) :
      (/\ ReadsBack(k, c)
       /\ Settled(c)
       /\ Served(Awaited(c))
       /\ ~MutatedBetween(Awaited(k), Awaited(c))) =>
        /\ calls[c].state = "resolved"
        /\ \A f \in DOMAIN calls[k].args[1] :
             Field(calls[c].value, f) = Field(calls[k].value, f)

C13_Witness ==
  /\ Len(calls) >= 2
  /\ ReadsBack(1, 2)
  /\ calls[1].args = <<[title |-> "Final", status |-> "scheduled"]>>
  /\ Served(Awaited(2))
  /\ ~MutatedBetween(Awaited(1), Awaited(2))
  /\ calls[2].state = "resolved"
  /\ Field(calls[2].value, "title") = "Final"
  /\ Field(calls[2].value, "status") = "scheduled"


\* The data the caller handed to update call c.
UpdateData(c) ==
  IF calls[c].op = "blogService.updatePost"
    THEN calls[c].args[1]
    ELSE calls[c].args[2]

\* Update call c has resolved and addresses record p.
ResolvedUpdateOf(c, p) ==
  /\ calls[c].op \in RecordUpdateOps
  /\ calls[c].state = "resolved"
  /\ ResourceOf(c) = p

ArrivalsOf(p) == {i \in 1..Len(arrived) : ResolvedUpdateOf(arrived[i], p)}

\* The update of record p whose successful response arrived last.
LastArrived(p) ==
  arrived[CHOOSE i \in ArrivalsOf(p) : \A j \in ArrivalsOf(p) : j <= i]

\* Update calls a and b address the same record, and b was invoked while a
\* was still in flight.
Race(a, b) ==
  /\ a < b
  /\ b <= Len(calls)
  /\ calls[a].op \in RecordUpdateOps
  /\ calls[b].op = calls[a].op
  /\ ResourceOf(a) = ResourceOf(b)
  /\ a \notin after[b]

Position(c) == CHOOSE i \in 1..Len(arrived) : arrived[i] = c

\* C14: an update sends exactly the caller's data to the record's path (no
\* version token), its call resolves with whatever the backend answered (no
\* conflict check: a response that arrives after a later update's is not
\* discarded), and the caller's copy of a record is the result of the update
\* whose response arrived last.
C14_LastResponseWins ==
  /\ \A c \in 1..Len(calls) :
       calls[c].op \in RecordUpdateOps =>
         /\ requests[Awaited(c)].request.method = "PUT"
         /\ requests[Awaited(c)].request.body = UpdateData(c)
         /\ UrlPath(requests[Awaited(c)].request.url) =
              requests[Awaited(c)].request.url
         /\ (Settled(c) /\ requests[Awaited(c)].state = "fulfilled") =>
              /\ calls[c].state = "resolved"
              /\ calls[c].value = requests[Awaited(c)].response.data
  /\ \A p \in DOMAIN store \cup DOMAIN view :
       IF ArrivalsOf(p) = {}
         THEN p \notin DOMAIN view
         ELSE p \in DOMAIN view /\ view[p] = calls[LastArrived(p)].value

\* Two racing updates of CV 7 whose responses arrived in the reverse of the
\* order the calls were issued in: the caller is left with the first call's
\* result while the backend holds something else.
C14_Witness ==
  /\ Race(1, 2)
  /\ calls[1].op = "CvService.updateCv"
  /\ calls[1].state = "resolved"
  /\ calls[2].state = "resolved"
  /\ requests[Awaited(1)].seq < requests[Awaited(2)].seq
  /\ Position(2) < Position(1)
  /\ view[ResourceOf(1)] = calls[1].value
  /\ view[ResourceOf(1)] # JsObject(store[ResourceOf(1)])

====
